---- MODULE Spec2Model ----
(***************************************************************************)
(* Alert triage, incident provisioning, referral workflow and station flag *)
(* maintenance of the emergency-dispatch backend (rn-auth-backend).        *)
(*                                                                         *)
(* Every handler is an async function: it runs from one await to the next  *)
(* without interruption, and other requests may run between two awaits.    *)
(* A handler is therefore written as a step function on the database and   *)
(* the request's local variables, one step per database call.  Spec runs   *)
(* every handler to its response in one action (requests served one after  *)
(* the other); SpecConc interleaves the steps of two requests.             *)
(***************************************************************************)
EXTENDS Integers, Sequences, FiniteSets, TLC

\* ------------------------------------------------------------------------
\* Bounds of the model
\* ------------------------------------------------------------------------
MaxRequests == 3     \* requests served one after the other in one behaviour
MaxConcurrent == 2   \* requests received in one behaviour of interleaved requests
MaxIncidents == 2    \* Incident documents
MaxReferrals == 2    \* Referral documents
MaxAuthRequests == 3 \* admin-account requests served in one behaviour
MaxClock == 2        \* the clock's last value, in units of seven days

\* ------------------------------------------------------------------------
\* Identifiers.  Every document id is a positive integer; 0 is null.
\* ------------------------------------------------------------------------
NULL == 0
AlertIds == {1, 2}
Stations == {1, 2, 3}
Departments == {1, 2, 3}
Units == {1, 2, 3, 4}
Slots == {1, 2}
AdminIds == {1, 2}

\* Station.status; station 3 is out of commission.
StationStatus(s) == IF s = 3 THEN "out of commission" ELSE "in commission"

\* Department.station_id and whether Department.name matches /operations/i.
\* Station 1: departments 1 (Operations) and 2 (not Operations);
\* station 2: department 3 (Operations); station 3: none.
DeptStation(d) == IF d = 3 THEN 2 ELSE 1
DeptIsOperations(d) == d \in {1, 3}

\* Unit.department and Unit.isActive.
\* Department 1: unit 1 (inactive) and unit 2 (active);
\* department 2: unit 3 (active); department 3: unit 4 (inactive).
UnitDept(u) == CASE u \in {1, 2} -> 1 [] u = 3 -> 2 [] OTHER -> 3
UnitIsActive(u) == u \in {2, 3}

AlertStatuses == {"active", "accepted", "rejected", "referred"}

\* The values of Incident.status the Incident schema is documented with.
IncidentStatuses == {"active", "dispatched", "on_scene", "resolved", "closed"}

\* ------------------------------------------------------------------------
\* State
\* ------------------------------------------------------------------------
VARIABLES
    alerts,     \* EmergencyAlert collection: id -> document (domain = ids that exist)
    incidents,  \* Incident collection: sequence of documents, _id = index
    referrals,  \* Referral collection: sequence of documents, _id = index
    stations,   \* Station collection: id -> [hasActiveAlert, hasActiveIncident]
    req,        \* per request slot: the handler, its position and its locals
    served,     \* number of requests received so far
    admins,     \* DepartmentAdmin / UnitAdmin accounts: id -> document
    clock,      \* the server's time (new Date()), in units of seven days
    auth        \* the admin-account request served last and its response

vars == <<alerts, incidents, referrals, stations, req, served, admins, clock, auth>>

\* new Date(): the time advances with every request received; requests served
\* one after the other are served at distinct, increasing times.
Now == served + 1

\* The database, the requests and the time as one value, for the step functions.
Cur == [alerts |-> alerts, incidents |-> incidents, referrals |-> referrals,
        stations |-> stations, req |-> req, now |-> Now]

Install(s) ==
    /\ alerts' = s.alerts
    /\ incidents' = s.incidents
    /\ referrals' = s.referrals
    /\ stations' = s.stations
    /\ req' = s.req
    /\ UNCHANGED <<admins, clock, auth>>

\* No turnout slip (incident.turnoutSlip undefined).
NoSlip == [alertId |-> NULL, stationId |-> NULL]

\* A slot that serves no request.
Idle == [op |-> "none", pc |-> "idle", id |-> NULL, status |-> "none",
         to |-> NULL, from |-> NULL, dtype |-> "none", reasonOk |-> TRUE,
         saveFails |-> FALSE,
         station |-> NULL, newStation |-> NULL, currentStatus |-> "none", cnt |-> 0,
         toHasAlert |-> FALSE, toHasIncident |-> FALSE, rid |-> NULL,
         slip |-> NoSlip, code |-> 0, events |-> <<>>]

\* No admin-account request served yet.
NoAuth == [op |-> "none", id |-> NULL, password |-> <<>>, newPassword |-> <<>>,
           code |-> 0, message |-> "none", requiresPasswordReset |-> FALSE]

\* ------------------------------------------------------------------------
\* Queries
\* ------------------------------------------------------------------------
\* An id that is not the text of an ObjectId.
MalformedId == -1

\* mongoose.Types.ObjectId.isValid(id)
IsValidObjectId(id) == id # MalformedId

\* findOne without a sort returns the first match in natural (insertion) order.
First(S) == CHOOSE x \in S : \A y \in S : x <= y

\* EmergencyAlert.countDocuments({station, status: {$in: ['active','pending']}})
ActiveAlertsOf(s, st) ==
    {a \in DOMAIN s.alerts :
        s.alerts[a].station = st /\ s.alerts[a].status \in {"active", "pending"}}

\* Incident.countDocuments({station, status: {$in: ['active','dispatched','on_scene']}})
ActiveIncidentsOf(s, st) ==
    {i \in DOMAIN s.incidents :
        s.incidents[i].station = st
        /\ s.incidents[i].status \in {"active", "dispatched", "on_scene"}}

\* Department.findOne({station_id, name: /operations/i})
OperationsDepartments(st) ==
    {d \in Departments : DeptStation(d) = st /\ DeptIsOperations(d)}

\* (variant: the isActive filter forgotten)
ActiveUnits_AnyUnit(d) == {u \in Units : UnitDept(u) = d}

\* Unit.findOne({department, isActive: true})
ActiveUnits(d) == {u \in Units : UnitDept(u) = d /\ UnitIsActive(u)}

\* ------------------------------------------------------------------------
\* Responses and events
\* ------------------------------------------------------------------------
Respond(s, r, code) == [s EXCEPT !.req[r].pc = "done", !.req[r].code = code]

Emit(s, r, ev) == [s EXCEPT !.req[r].events = Append(@, ev)]

Goto(s, r, pc) == [s EXCEPT !.req[r].pc = pc]

\* ------------------------------------------------------------------------
\* Documents
\* ------------------------------------------------------------------------
\* A new EmergencyAlert as intake leaves it: status 'active' (schema default),
\* no action flag set, unit/department assigned or null.
NewAlert(st, u) ==
    [station |-> st, status |-> "active",
     dispatched |-> FALSE, declined |-> FALSE, referred |-> FALSE,
     dispatchedAt |-> NULL, referredToStation |-> NULL,
     unit |-> u, department |-> IF u = NULL THEN NULL ELSE UnitDept(u)]

\* new Incident({alertId, station, departmentOnDuty, unitOnDuty, status: 'active'})
NewIncident(alertId, stationId, d, u) ==
    [alertId |-> alertId, station |-> stationId, departmentOnDuty |-> d,
     unitOnDuty |-> u, status |-> "active",
     referred |-> FALSE, referredToStation |-> NULL, turnoutSlip |-> NoSlip]

\* new Referral({data_id, data_type, from_station_id, to_station_id, status: 'pending'})
NewReferral(data_id, data_type, from, to) ==
    [data_id |-> data_id, data_type |-> data_type,
     from_station_id |-> from, to_station_id |-> to,
     status |-> "pending", responded_at |-> FALSE]

\* ------------------------------------------------------------------------
\* updateEmergencyAlert
\* ------------------------------------------------------------------------
\* (variant: the comparison with the current status forgotten)
IsStatusChangingToAccepted_AnyAccept(newStatus, currentStatus) == newStatus = "accepted"

\* newStatus === 'accepted' && currentStatus !== 'accepted'
IsStatusChangingToAccepted(newStatus, currentStatus) ==
    newStatus = "accepted" /\ currentStatus # "accepted"

\* The update document built from req.body and applied by findByIdAndUpdate.
\* The body carries no dispatchedAt (!updateData.dispatchedAt), so an accept
\* puts dispatchedAt = new Date() into the update.
UpdatePatch(doc, newStatus, now) ==
    CASE newStatus = "accepted" ->
            [doc EXCEPT !.status = "accepted", !.dispatched = TRUE, !.dispatchedAt = now]
      [] newStatus = "rejected" -> [doc EXCEPT !.status = "rejected", !.declined = TRUE]
      [] newStatus = "referred" -> [doc EXCEPT !.status = "referred", !.referred = TRUE]
      [] newStatus = "active"   -> [doc EXCEPT !.status = "active"]
      [] OTHER                  -> doc

\* Incident provisioning: the Operations department of the station, an active
\* unit of it, then incident.save().  Written twice in the source, with the
\* same text, in updateEmergencyAlert and in dispatchEmergencyAlert.
\* (variant: a failing incident.save() fails the request)
Provision_FailureAborts(s, r) ==
    LET q == s.req[r]
        depts == OperationsDepartments(q.station)
    IN  IF depts = {} THEN Goto(s, r, "countAlerts")
        ELSE LET d == First(depts)
                 units == ActiveUnits(d)
             IN  IF units = {} THEN Goto(s, r, "countAlerts")
                 ELSE IF q.saveFails THEN Respond(s, r, 500)
                 ELSE [s EXCEPT !.incidents =
                                    Append(@, NewIncident(q.id, q.station, d, First(units))),
                                !.req[r].pc = "countIncidents"]

Provision(s, r) ==
    LET q == s.req[r]
        depts == OperationsDepartments(q.station)
    IN  IF depts = {} THEN Goto(s, r, "countAlerts")
        ELSE LET d == First(depts)
                 units == ActiveUnits(d)
             IN  IF units = {} THEN Goto(s, r, "countAlerts")
                 \* incident.save() throws: caught and logged by the outer catch
                 ELSE IF q.saveFails THEN Goto(s, r, "countAlerts")
                 ELSE [s EXCEPT !.incidents =
                                    Append(@, NewIncident(q.id, q.station, d, First(units))),
                                !.req[r].pc = "countIncidents"]

\* Incident.countDocuments(...) for the station of the new incident.
CountIncidents(s, r) ==
    [s EXCEPT !.req[r].cnt = Cardinality(ActiveIncidentsOf(s, s.req[r].station)),
              !.req[r].pc = "setHasActiveIncident"]

\* (variant: the station's flag not written)
SetHasActiveIncident_FlagNotWritten(s, r) ==
    Emit(Goto(s, r, "countAlerts"), r, "newIncident")

\* Station.findByIdAndUpdate(stationId, {hasActiveIncident: count > 0}),
\* then emitNewIncident(incident).
SetHasActiveIncident(s, r) ==
    LET q == s.req[r]
        t == [s EXCEPT !.stations[q.station].hasActiveIncident = (q.cnt > 0),
                       !.req[r].pc = "countAlerts"]
    IN  Emit(t, r, "newIncident")

\* EmergencyAlert.countDocuments(...) for the station of the alert.
CountAlerts(s, r) ==
    [s EXCEPT !.req[r].cnt = Cardinality(ActiveAlertsOf(s, s.req[r].newStation)),
              !.req[r].pc = "setHasActiveAlert"]

\* Station.findByIdAndUpdate(stationId, {hasActiveAlert: count > 0}), then the
\* handler's event and its success response.
SetHasActiveAlert(s, r, ev) ==
    LET q == s.req[r]
        t == [s EXCEPT !.stations[q.newStation].hasActiveAlert = (q.cnt > 0)]
    IN  Respond(Emit(t, r, ev), r, 200)

\* The steps after the alert is stored as accepted, common to both handlers.
AcceptTail(s, r) ==
    LET q == s.req[r]
    IN  CASE q.pc = "provision" -> Provision(s, r)
          [] q.pc = "countIncidents" -> CountIncidents(s, r)
          [] q.pc = "setHasActiveIncident" -> SetHasActiveIncident(s, r)
          [] q.pc = "countAlerts" -> CountAlerts(s, r)
          [] q.pc = "setHasActiveAlert" -> SetHasActiveAlert(s, r, "alertUpdated")

UpdateStep(s, r) ==
    LET q == s.req[r]
    IN  CASE q.pc = "findById" ->
                \* const currentAlert = await EmergencyAlert.findById(id)
                IF q.id \notin DOMAIN s.alerts THEN Respond(s, r, 404)
                ELSE [s EXCEPT
                        !.req[r].currentStatus = s.alerts[q.id].status,
                        !.req[r].station = s.alerts[q.id].station,
                        !.req[r].pc = "findByIdAndUpdate"]
          [] q.pc = "findByIdAndUpdate" ->
                \* runValidators rejects a status outside the schema's enum
                IF q.status \notin AlertStatuses \cup {"none"} THEN Respond(s, r, 400)
                ELSE IF q.id \notin DOMAIN s.alerts THEN Respond(s, r, 404)
                ELSE [s EXCEPT
                        !.alerts[q.id] = UpdatePatch(@, q.status, s.now),
                        !.req[r].newStation = s.alerts[q.id].station,
                        !.req[r].pc =
                            IF IsStatusChangingToAccepted(q.status, q.currentStatus)
                            THEN "provision" ELSE "countAlerts"]
          [] OTHER -> AcceptTail(s, r)

\* ------------------------------------------------------------------------
\* dispatchEmergencyAlert, declineEmergencyAlert, referEmergencyAlert
\* ------------------------------------------------------------------------
\* !emergencyAlert.unit || !emergencyAlert.unit.isActive
HasNoActiveUnit(doc) == doc.unit = NULL \/ ~UnitIsActive(doc.unit)

\* (variant: only the dispatched flag checked)
AlreadyTriaged_DispatchedOnly(doc) == doc.dispatched

\* The three 'already dispatched / declined / referred' checks.
AlreadyTriaged(doc) == doc.dispatched \/ doc.declined \/ doc.referred

\* wasAlreadyAccepted = emergencyAlert.status === 'accepted'
WasAlreadyAccepted(currentStatus) == currentStatus = "accepted"

\* emergencyAlert.dispatched = true; dispatchedAt = new Date(); status = 'accepted'
DispatchPatch(doc, now) ==
    [doc EXCEPT !.dispatched = TRUE, !.dispatchedAt = now, !.status = "accepted"]

\* emergencyAlert.declined = true (declinedAt, declineReason)
DeclinePatch(doc) == [doc EXCEPT !.declined = TRUE]

\* (variant: the unit assignment not cleared)
ReferPatch_KeepsUnit(doc, stationId) ==
    [doc EXCEPT !.referred = TRUE, !.referredToStation = stationId,
                !.station = stationId]

\* emergencyAlert.referred = true; referredToStation, station = stationId;
\* unit = null; department = null
ReferPatch(doc, stationId) ==
    [doc EXCEPT !.referred = TRUE, !.referredToStation = stationId,
                !.station = stationId, !.unit = NULL, !.department = NULL]

DispatchStep(s, r) ==
    LET q == s.req[r]
    IN  CASE q.pc = "findById" ->
                IF q.id \notin DOMAIN s.alerts THEN Respond(s, r, 404)
                ELSE IF HasNoActiveUnit(s.alerts[q.id]) THEN Respond(s, r, 400)
                ELSE IF AlreadyTriaged(s.alerts[q.id]) THEN Respond(s, r, 400)
                ELSE [s EXCEPT
                        !.req[r].currentStatus = s.alerts[q.id].status,
                        !.req[r].station = s.alerts[q.id].station,
                        !.req[r].newStation = s.alerts[q.id].station,
                        !.req[r].pc = "save"]
          [] q.pc = "save" ->
                \* save() of a document that was deleted meanwhile throws
                IF q.id \notin DOMAIN s.alerts THEN Respond(s, r, 500)
                ELSE [s EXCEPT
                        !.alerts[q.id] = DispatchPatch(@, s.now),
                        !.req[r].pc =
                            IF WasAlreadyAccepted(q.currentStatus)
                            THEN "countAlerts" ELSE "provision"]
          [] OTHER -> AcceptTail(s, r)

DeclineStep(s, r) ==
    LET q == s.req[r]
    IN  CASE q.pc = "findById" ->
                \* !reason || reason.trim().length === 0
                IF ~q.reasonOk THEN Respond(s, r, 400)
                ELSE IF q.id \notin DOMAIN s.alerts THEN Respond(s, r, 404)
                ELSE IF HasNoActiveUnit(s.alerts[q.id]) THEN Respond(s, r, 400)
                ELSE IF AlreadyTriaged(s.alerts[q.id]) THEN Respond(s, r, 400)
                ELSE Goto(s, r, "save")
          [] q.pc = "save" ->
                IF q.id \notin DOMAIN s.alerts THEN Respond(s, r, 500)
                ELSE Respond([s EXCEPT !.alerts[q.id] = DeclinePatch(@)], r, 200)

ReferStep(s, r) ==
    LET q == s.req[r]
    IN  CASE q.pc = "findStation" ->
                \* the referred station exists (Station.findById(stationId))
                IF ~q.reasonOk THEN Respond(s, r, 400)
                ELSE IF q.to \notin Stations THEN Respond(s, r, 404)
                ELSE Goto(s, r, "findById")
          [] q.pc = "findById" ->
                IF q.id \notin DOMAIN s.alerts THEN Respond(s, r, 404)
                ELSE IF HasNoActiveUnit(s.alerts[q.id]) THEN Respond(s, r, 400)
                \* emergencyAlert.station.toString() === stationId
                ELSE IF s.alerts[q.id].station = q.to THEN Respond(s, r, 400)
                ELSE IF AlreadyTriaged(s.alerts[q.id]) THEN Respond(s, r, 400)
                ELSE Goto(s, r, "save")
          [] q.pc = "save" ->
                IF q.id \notin DOMAIN s.alerts THEN Respond(s, r, 500)
                ELSE Respond([s EXCEPT !.alerts[q.id] = ReferPatch(@, q.to)], r, 200)

\* ------------------------------------------------------------------------
\* deleteEmergencyAlert
\* ------------------------------------------------------------------------
\* (variant: the station's flag left as it was)
DeleteStep_FlagNotRecomputed(s, r) ==
    LET q == s.req[r]
    IN  CASE q.pc = "findById" ->
                IF ~IsValidObjectId(q.id) THEN Respond(s, r, 400)
                ELSE IF q.id \notin DOMAIN s.alerts THEN Respond(s, r, 404)
                ELSE [s EXCEPT !.req[r].station = s.alerts[q.id].station,
                               !.req[r].newStation = s.alerts[q.id].station,
                               !.req[r].pc = "findByIdAndDelete"]
          [] q.pc = "findByIdAndDelete" ->
                Respond(Emit([s EXCEPT !.alerts = [a \in (DOMAIN s.alerts) \ {q.id}
                                                      |-> s.alerts[a]]],
                             r, "alertDeleted"), r, 200)

DeleteStep(s, r) ==
    LET q == s.req[r]
    IN  CASE q.pc = "findById" ->
                IF ~IsValidObjectId(q.id) THEN Respond(s, r, 400)
                ELSE IF q.id \notin DOMAIN s.alerts THEN Respond(s, r, 404)
                ELSE [s EXCEPT !.req[r].station = s.alerts[q.id].station,
                               !.req[r].newStation = s.alerts[q.id].station,
                               !.req[r].pc = "findByIdAndDelete"]
          [] q.pc = "findByIdAndDelete" ->
                [s EXCEPT !.alerts = [a \in (DOMAIN s.alerts) \ {q.id} |-> s.alerts[a]],
                          !.req[r].pc = "countAlerts"]
          [] q.pc = "countAlerts" -> CountAlerts(s, r)
          [] q.pc = "setHasActiveAlert" -> SetHasActiveAlert(s, r, "alertDeleted")

\* ------------------------------------------------------------------------
\* createReferral
\* ------------------------------------------------------------------------
\* Referral.findOne({data_id, data_type, status: 'pending'})
PendingReferrals(s, data_id, data_type) ==
    {i \in DOMAIN s.referrals :
        /\ s.referrals[i].data_id = data_id
        /\ s.referrals[i].data_type = data_type
        /\ s.referrals[i].status = "pending"}

\* Incident.findOne({station: to_station_id,
\*                   status: {$in: ['pending','dispatched','active','on_scene']}})
BusyIncidentsOf(s, st) ==
    {i \in DOMAIN s.incidents :
        s.incidents[i].station = st
        /\ s.incidents[i].status \in {"pending", "dispatched", "active", "on_scene"}}

\* (variant: the status left as it was)
ReferredPatch_FlagOnly(doc, to) ==
    [doc EXCEPT !.referred = TRUE, !.referredToStation = to]

\* The update that marks the referenced alert or incident as referred.
ReferredPatch(doc, to) ==
    [doc EXCEPT !.referred = TRUE, !.referredToStation = to, !.status = "referred"]

\* Whether the referenced document exists (findById of the alert or incident).
DataExists(s, data_id, data_type) ==
    IF data_type = "EmergencyAlert" THEN data_id \in DOMAIN s.alerts
    ELSE data_id \in DOMAIN s.incidents

\* The position after the commission check: the active-alert query runs only
\* if toStation.hasActiveAlert, the active-incident query only if
\* toStation.hasActiveIncident.
AfterCommissionCheck(hasAlert, hasIncident) ==
    IF hasAlert THEN "findActiveAlert"
    ELSE IF hasIncident THEN "findActiveIncident"
    ELSE "findPending"

\* (variant: the target station not notified)
MarkReferred_NoNotification(s, r) ==
    LET q == s.req[r]
    IN  IF q.saveFails THEN Respond(s, r, 500)
        ELSE IF ~DataExists(s, q.id, q.dtype) THEN Goto(s, r, "findReferral")
        ELSE IF q.dtype = "EmergencyAlert"
        THEN Emit([s EXCEPT !.alerts[q.id] = ReferredPatch(@, q.to),
                            !.req[r].pc = "findReferral"], r, "alertUpdated")
        ELSE Emit([s EXCEPT !.incidents[q.id] = ReferredPatch(@, q.to),
                            !.req[r].pc = "findReferral"], r, "incidentUpdated")

\* findByIdAndUpdate of the referenced alert or incident, then the two events
\* about it.  findByIdAndUpdate returns null for a document deleted meanwhile:
\* nothing is written and the emit helpers are handed null.  If the database
\* refuses the update, findByIdAndUpdate throws: the outer catch answers 500.
MarkReferred(s, r) ==
    LET q == s.req[r]
    IN  IF q.saveFails THEN Respond(s, r, 500)
        ELSE IF ~DataExists(s, q.id, q.dtype) THEN Goto(s, r, "findReferral")
        ELSE IF q.dtype = "EmergencyAlert"
        THEN Emit(Emit([s EXCEPT !.alerts[q.id] = ReferredPatch(@, q.to),
                                 !.req[r].pc = "findReferral"],
                       r, "alertUpdated"), r, "referredAlertReceived")
        ELSE Emit(Emit([s EXCEPT !.incidents[q.id] = ReferredPatch(@, q.to),
                                 !.req[r].pc = "findReferral"],
                       r, "incidentUpdated"), r, "referredIncidentReceived")

\* Referral.findById(referral._id), emitReferralCreated, status 201.
EmitReferralCreated(s, r) == Respond(Emit(s, r, "referralCreated"), r, 201)

CreateReferralStep(s, r) ==
    LET q == s.req[r]
    IN  CASE q.pc = "findData" ->
                \* from_station_id.toString() === to_station_id.toString()
                IF q.from = q.to THEN Respond(s, r, 400)
                ELSE IF ~DataExists(s, q.id, q.dtype) THEN Respond(s, r, 404)
                ELSE Goto(s, r, "findToStation")
          [] q.pc = "findToStation" ->
                \* fromStation and toStation exist; toStation is read here
                IF StationStatus(q.to) = "out of commission" THEN Respond(s, r, 400)
                ELSE [s EXCEPT
                        !.req[r].toHasAlert = s.stations[q.to].hasActiveAlert,
                        !.req[r].toHasIncident = s.stations[q.to].hasActiveIncident,
                        !.req[r].pc = AfterCommissionCheck(
                                          s.stations[q.to].hasActiveAlert,
                                          s.stations[q.to].hasActiveIncident)]
          [] q.pc = "findActiveAlert" ->
                IF ActiveAlertsOf(s, q.to) # {} THEN Respond(s, r, 400)
                ELSE Goto(s, r, AfterCommissionCheck(FALSE, q.toHasIncident))
          [] q.pc = "findActiveIncident" ->
                IF BusyIncidentsOf(s, q.to) # {} THEN Respond(s, r, 400)
                ELSE Goto(s, r, "findPending")
          [] q.pc = "findPending" ->
                IF PendingReferrals(s, q.id, q.dtype) # {} THEN Respond(s, r, 400)
                ELSE Goto(s, r, "saveReferral")
          [] q.pc = "saveReferral" ->
                [s EXCEPT !.referrals = Append(@, NewReferral(q.id, q.dtype, q.from, q.to)),
                          !.req[r].rid = Len(s.referrals) + 1,
                          !.req[r].pc = "markReferred"]
          [] q.pc = "markReferred" -> MarkReferred(s, r)
          [] q.pc = "findReferral" -> EmitReferralCreated(s, r)

\* ------------------------------------------------------------------------
\* updateReferral, deleteReferral
\* ------------------------------------------------------------------------
\* What a deleted Referral leaves at its place in the collection: the _id is
\* never given to another document and no query finds it.
DeletedReferral ==
    [data_id |-> NULL, data_type |-> "none", from_station_id |-> NULL,
     to_station_id |-> NULL, status |-> "deleted", responded_at |-> FALSE]

\* Referral.findById(id) finds a document.
ReferralExists(s, id) == id \in DOMAIN s.referrals /\ s.referrals[id] # DeletedReferral

\* status && !['pending', 'accepted', 'rejected'].includes(status)
\* ("none": the body carries no status)
IsReferralStatusRejected(status) ==
    status # "none" /\ status \notin {"pending", "accepted", "rejected"}

\* updateData: the status if it is given and differs from the referral's, and
\* responded_at = new Date() if that status is accepted or rejected.
ReferralUpdate(doc, status, currentStatus) ==
    IF status # "none" /\ status # currentStatus
    THEN [doc EXCEPT !.status = status,
                     !.responded_at = IF status \in {"accepted", "rejected"}
                                      THEN TRUE ELSE @]
    ELSE doc

\* (variant: an accepted referral hands the alert over to the target station)
WriteReferral_MovesAlert(s, r) ==
    LET q == s.req[r]
        ref == s.referrals[q.id]
        t == [s EXCEPT !.referrals[q.id] = ReferralUpdate(@, q.status, q.currentStatus)]
    IN  IF q.status = "accepted" /\ ref.data_type = "EmergencyAlert"
           /\ ref.data_id \in DOMAIN s.alerts
        THEN [t EXCEPT !.alerts[ref.data_id].station = ref.to_station_id]
        ELSE t

\* Referral.findByIdAndUpdate(id, updateData, {new: true, runValidators: true})
WriteReferral(s, r) ==
    LET q == s.req[r]
    IN  [s EXCEPT !.referrals[q.id] = ReferralUpdate(@, q.status, q.currentStatus)]

UpdateReferralStep(s, r) ==
    LET q == s.req[r]
    IN  CASE q.pc = "findById" ->
                IF ~IsValidObjectId(q.id) THEN Respond(s, r, 400)
                ELSE IF IsReferralStatusRejected(q.status) THEN Respond(s, r, 400)
                ELSE IF ~ReferralExists(s, q.id) THEN Respond(s, r, 404)
                ELSE [s EXCEPT !.req[r].currentStatus = s.referrals[q.id].status,
                               !.req[r].pc = "findByIdAndUpdate"]
          [] q.pc = "findByIdAndUpdate" ->
                \* findByIdAndUpdate returns null for a referral deleted
                \* meanwhile: nothing is written, the response is the same
                IF ~ReferralExists(s, q.id) THEN Respond(s, r, 200)
                ELSE Respond(Emit(WriteReferral(s, r), r, "referralUpdated"), r, 200)

\* Referral.findByIdAndDelete(id), for a referral that exists
RemoveReferral(s, id) == [s EXCEPT !.referrals[id] = DeletedReferral]

DeleteReferralStep(s, r) ==
    LET q == s.req[r]
    IN  CASE q.pc = "findByIdAndDelete" ->
                IF ~IsValidObjectId(q.id) THEN Respond(s, r, 400)
                ELSE IF ~ReferralExists(s, q.id) THEN Respond(s, r, 404)
                ELSE Respond(RemoveReferral(s, q.id), r, 200)

\* ------------------------------------------------------------------------
\* getTurnoutSlipByIncident, regenerateTurnoutSlip
\* ------------------------------------------------------------------------
\* (variant: the slip without its alert reference)
TurnoutSlip_NoAlertId(alertId, stationId) == [alertId |-> NULL, stationId |-> stationId]

\* generateTurnoutSlip(alert): of the slip, its alertId and stationId
TurnoutSlip(alertId, stationId) == [alertId |-> alertId, stationId |-> stationId]

GetTurnoutSlipStep(s, r) ==
    LET q == s.req[r]
    IN  CASE q.pc = "findIncident" ->
                IF q.id \notin DOMAIN s.incidents THEN Respond(s, r, 404)
                \* !incident.turnoutSlip
                ELSE IF s.incidents[q.id].turnoutSlip = NoSlip THEN Respond(s, r, 404)
                ELSE Respond([s EXCEPT !.req[r].slip = s.incidents[q.id].turnoutSlip],
                             r, 200)

RegenerateTurnoutSlipStep(s, r) ==
    LET q == s.req[r]
    IN  CASE q.pc = "findIncident" ->
                IF q.id \notin DOMAIN s.incidents THEN Respond(s, r, 404)
                ELSE Goto(s, r, "findAlert")
          [] q.pc = "findAlert" ->
                \* EmergencyAlert.findById(incident.alertId), then generateTurnoutSlip(alert)
                LET alertId == s.incidents[q.id].alertId
                IN  IF alertId \notin DOMAIN s.alerts THEN Respond(s, r, 404)
                    ELSE [s EXCEPT
                            !.req[r].slip = TurnoutSlip(alertId, s.alerts[alertId].station),
                            !.req[r].pc = "saveIncident"]
          [] q.pc = "saveIncident" ->
                \* incident.turnoutSlip = turnoutSlip; await incident.save()
                Respond([s EXCEPT !.incidents[q.id].turnoutSlip = q.slip], r, 200)

\* ------------------------------------------------------------------------
\* Requests
\* ------------------------------------------------------------------------
\* One step of the request in slot r: from its position to its next await.
Step(s, r) ==
    LET op == s.req[r].op
    IN  CASE op = "update" -> UpdateStep(s, r)
          [] op = "dispatch" -> DispatchStep(s, r)
          [] op = "decline" -> DeclineStep(s, r)
          [] op = "refer" -> ReferStep(s, r)
          [] op = "delete" -> DeleteStep(s, r)
          [] op = "createReferral" -> CreateReferralStep(s, r)
          [] op = "updateReferral" -> UpdateReferralStep(s, r)
          [] op = "deleteReferral" -> DeleteReferralStep(s, r)
          [] op = "getTurnoutSlip" -> GetTurnoutSlipStep(s, r)
          [] op = "regenerateTurnoutSlip" -> RegenerateTurnoutSlipStep(s, r)

\* The request in slot r run to its response.
RECURSIVE Run(_, _)
Run(s, r) ==
    IF s.req[r].pc = "done" THEN s
    ELSE CHOOSE u \in {Run(t, r) : t \in {Step(s, r)}} : TRUE

Begin(s, r, q) == [s EXCEPT !.req[r] = q]

UpdateRequest(id, status) ==
    [Idle EXCEPT !.op = "update", !.pc = "findById", !.id = id, !.status = status]
DispatchRequest(id) ==
    [Idle EXCEPT !.op = "dispatch", !.pc = "findById", !.id = id]
\* The same request, served while the database refuses the handler's second
\* write: incident.save() after the alert's update, the update of the
\* referenced alert or incident after referral.save().
SaveFailing(q) == [q EXCEPT !.saveFails = TRUE]
DeclineRequest(id, reasonOk) ==
    [Idle EXCEPT !.op = "decline", !.pc = "findById", !.id = id, !.reasonOk = reasonOk]
ReferRequest(id, stationId, reasonOk) ==
    [Idle EXCEPT !.op = "refer", !.pc = "findStation", !.id = id, !.to = stationId,
                 !.reasonOk = reasonOk]
DeleteRequest(id) ==
    [Idle EXCEPT !.op = "delete", !.pc = "findById", !.id = id]
CreateReferralRequest(data_id, data_type, from, to) ==
    [Idle EXCEPT !.op = "createReferral", !.pc = "findData", !.id = data_id,
                 !.dtype = data_type, !.from = from, !.to = to]
UpdateReferralRequest(id, status) ==
    [Idle EXCEPT !.op = "updateReferral", !.pc = "findById", !.id = id, !.status = status]
DeleteReferralRequest(id) ==
    [Idle EXCEPT !.op = "deleteReferral", !.pc = "findByIdAndDelete", !.id = id]

GetTurnoutSlipRequest(incidentId) ==
    [Idle EXCEPT !.op = "getTurnoutSlip", !.pc = "findIncident", !.id = incidentId]
RegenerateTurnoutSlipRequest(incidentId) ==
    [Idle EXCEPT !.op = "regenerateTurnoutSlip", !.pc = "findIncident", !.id = incidentId]

\* req.body.status of updateEmergencyAlert: one of the schema's values or a
\* value the schema rejects.
BodyStatuses == {"active", "accepted", "rejected", "referred", "bogus"}

InFlight(r) == req[r].pc \notin {"idle", "done"}

\* Requests in other slots that may still save an incident / a referral.
PendingIncidentSaves(r) ==
    Cardinality({o \in Slots \ {r} :
        InFlight(o) /\ req[o].op \in {"update", "dispatch"}
        /\ req[o].pc \in {"findById", "findByIdAndUpdate", "save", "provision"}})
PendingReferralSaves(r) ==
    Cardinality({o \in Slots \ {r} : InFlight(o) /\ req[o].op = "createReferral"})

RoomForIncident(r) == Len(incidents) + PendingIncidentSaves(r) < MaxIncidents
RoomForReferral(r) == Len(referrals) + PendingReferralSaves(r) < MaxReferrals

\* The requests a client can send, as the slot's initial locals.
UpdateInputs(r) ==
    {UpdateRequest(id, st) : id \in AlertIds, st \in BodyStatuses \ {"accepted"}}
    \cup (IF RoomForIncident(r) THEN {UpdateRequest(id, "accepted") : id \in AlertIds}
          ELSE {})
DispatchInputs(r) ==
    IF RoomForIncident(r) THEN {DispatchRequest(id) : id \in AlertIds} ELSE {}
DeclineInputs == {DeclineRequest(id, TRUE) : id \in AlertIds} \cup {DeclineRequest(1, FALSE)}
\* Station 4 does not exist.
ReferInputs ==
    {ReferRequest(id, st, TRUE) : id \in AlertIds, st \in Stations}
    \cup {ReferRequest(1, 1, FALSE), ReferRequest(1, 4, TRUE)}
DeleteInputs == {DeleteRequest(id) : id \in AlertIds \cup {MalformedId}}
CreateReferralInputs(r) ==
    IF RoomForReferral(r)
    THEN {CreateReferralRequest(id, "EmergencyAlert", f, t) :
              id \in AlertIds, f \in Stations, t \in Stations}
         \cup {CreateReferralRequest(i, "Incident", f, t) :
              i \in 1..MaxIncidents, f \in Stations, t \in Stations}
    ELSE {}

\* ------------------------------------------------------------------------
\* Initial state: the alerts as intake stored them, no incident, no referral,
\* the station flags as intake set them.
\* ------------------------------------------------------------------------
\* Intake stores an alert at a station in commission and assigns the active
\* unit of the station's Operations department if there is one.
IntakeUnit(st) ==
    IF OperationsDepartments(st) # {} /\ ActiveUnits(First(OperationsDepartments(st))) # {}
    THEN First(ActiveUnits(First(OperationsDepartments(st))))
    ELSE NULL

IntakeAlerts ==
    {NewAlert(st, IntakeUnit(st)) :
        st \in {x \in Stations : StationStatus(x) = "in commission"}}

Init ==
    /\ alerts \in [AlertIds -> IntakeAlerts]
    /\ incidents = <<>>
    /\ referrals = <<>>
    /\ stations = [st \in Stations |->
                     [hasActiveAlert |-> \E a \in AlertIds : alerts[a].station = st,
                      hasActiveIncident |-> FALSE]]
    /\ req = [r \in Slots |-> Idle]
    /\ served = 0
    /\ admins = <<>>
    /\ clock = 0
    /\ auth = NoAuth

\* ------------------------------------------------------------------------
\* Spec: requests served one after the other, each run to its response.
\* ------------------------------------------------------------------------
\* The state after the request q has been served.
ServeResult(q) == Run(Begin(Cur, 1, q), 1)

UpdateEmergencyAlert ==
    /\ served < MaxRequests
    /\ \E q \in UpdateInputs(1) : \E s \in {ServeResult(q)} : Install(s)
    /\ served' = served + 1

DispatchEmergencyAlert ==
    /\ served < MaxRequests
    /\ \E q \in DispatchInputs(1) : \E s \in {ServeResult(q)} : Install(s)
    /\ served' = served + 1

DeclineEmergencyAlert ==
    /\ served < MaxRequests
    /\ \E q \in DeclineInputs : \E s \in {ServeResult(q)} : Install(s)
    /\ served' = served + 1

ReferEmergencyAlert ==
    /\ served < MaxRequests
    /\ \E q \in ReferInputs : \E s \in {ServeResult(q)} : Install(s)
    /\ served' = served + 1

DeleteEmergencyAlert ==
    /\ served < MaxRequests
    /\ \E q \in DeleteInputs : \E s \in {ServeResult(q)} : Install(s)
    /\ served' = served + 1

CreateReferral ==
    /\ served < MaxRequests
    /\ \E q \in CreateReferralInputs(1) : \E s \in {ServeResult(q)} : Install(s)
    /\ served' = served + 1

Next ==
    \/ UpdateEmergencyAlert
    \/ DispatchEmergencyAlert
    \/ DeclineEmergencyAlert
    \/ ReferEmergencyAlert
    \/ DeleteEmergencyAlert
    \/ CreateReferral

Spec == Init /\ [][Next]_vars

\* ------------------------------------------------------------------------
\* SpecFault: the requests of Spec, and requests during which the database
\* refuses a write: incident.save() of an acceptance, the update of the
\* referenced alert or incident of createReferral.
\* ------------------------------------------------------------------------
UpdateWithFailingSave ==
    /\ served < MaxRequests
    /\ \E q \in {SaveFailing(UpdateRequest(id, "accepted")) : id \in AlertIds} :
          \E s \in {ServeResult(q)} : Install(s)
    /\ served' = served + 1

DispatchWithFailingSave ==
    /\ served < MaxRequests
    /\ \E q \in {SaveFailing(DispatchRequest(id)) : id \in AlertIds} :
          \E s \in {ServeResult(q)} : Install(s)
    /\ served' = served + 1

CreateReferralWithFailingUpdate ==
    /\ served < MaxRequests
    /\ \E q \in {SaveFailing(c) : c \in CreateReferralInputs(1)} :
          \E s \in {ServeResult(q)} : Install(s)
    /\ served' = served + 1

NextFault ==
    \/ UpdateEmergencyAlert
    \/ DispatchEmergencyAlert
    \/ DeclineEmergencyAlert
    \/ ReferEmergencyAlert
    \/ DeleteEmergencyAlert
    \/ CreateReferral
    \/ UpdateWithFailingSave
    \/ DispatchWithFailingSave
    \/ CreateReferralWithFailingUpdate

SpecFault == Init /\ [][NextFault]_vars

\* ------------------------------------------------------------------------
\* SpecRef: the requests of Spec, and the answers to a referral
\* (updateReferral) and its removal (deleteReferral).
\* ------------------------------------------------------------------------
\* req.body.status of updateReferral: absent, one of the schema's values or a
\* value the handler rejects.
ReferralBodyStatuses == {"none", "pending", "accepted", "rejected", "bogus"}

UpdateReferralInputs ==
    {UpdateReferralRequest(id, st) : id \in 1..MaxReferrals, st \in ReferralBodyStatuses}
    \cup {UpdateReferralRequest(MalformedId, "accepted")}

DeleteReferralInputs ==
    {DeleteReferralRequest(id) : id \in (1..MaxReferrals) \cup {MalformedId}}

UpdateReferral ==
    /\ served < MaxRequests
    /\ \E q \in UpdateReferralInputs : \E s \in {ServeResult(q)} : Install(s)
    /\ served' = served + 1

DeleteReferral ==
    /\ served < MaxRequests
    /\ \E q \in DeleteReferralInputs : \E s \in {ServeResult(q)} : Install(s)
    /\ served' = served + 1

NextRef ==
    \/ UpdateEmergencyAlert
    \/ DispatchEmergencyAlert
    \/ DeclineEmergencyAlert
    \/ ReferEmergencyAlert
    \/ DeleteEmergencyAlert
    \/ CreateReferral
    \/ UpdateReferral
    \/ DeleteReferral

SpecRef == Init /\ [][NextRef]_vars

\* ------------------------------------------------------------------------
\* SpecSlip: the requests of Spec and the turnout-slip requests, served one
\* after the other.
\* ------------------------------------------------------------------------
TurnoutSlipInputs == 1..MaxIncidents

GetTurnoutSlipByIncident ==
    /\ served < MaxRequests
    /\ \E q \in {GetTurnoutSlipRequest(i) : i \in TurnoutSlipInputs} :
          \E s \in {ServeResult(q)} : Install(s)
    /\ served' = served + 1

RegenerateTurnoutSlip ==
    /\ served < MaxRequests
    /\ \E q \in {RegenerateTurnoutSlipRequest(i) : i \in TurnoutSlipInputs} :
          \E s \in {ServeResult(q)} : Install(s)
    /\ served' = served + 1

NextSlip ==
    \/ UpdateEmergencyAlert
    \/ DispatchEmergencyAlert
    \/ DeclineEmergencyAlert
    \/ ReferEmergencyAlert
    \/ DeleteEmergencyAlert
    \/ CreateReferral
    \/ GetTurnoutSlipByIncident
    \/ RegenerateTurnoutSlip

SpecSlip == Init /\ [][NextSlip]_vars

\* ------------------------------------------------------------------------
\* SpecConc: two requests in progress, interleaved at their awaits.
\* ------------------------------------------------------------------------
\* Slot r is free and another request may be received.  A request is received
\* in slot 2 only while slot 1 is busy: the slots are interchangeable.
CanReceive(r) ==
    ~InFlight(r) /\ served < MaxConcurrent /\ (r = 1 \/ InFlight(1))

\* Slot r is in the middle of a request of handler op.
Running(r, op) == InFlight(r) /\ req[r].op = op

ReceiveUpdate(r) ==
    /\ CanReceive(r)
    /\ \E q \in UpdateInputs(r) : Install(Begin(Cur, r, q))
    /\ served' = served + 1

\* The request runs from its position to its next await.
StepUpdate(r) ==
    /\ Running(r, "update")
    /\ \E s \in {Cur} : Install(UpdateStep(s, r))
    /\ UNCHANGED served

ReceiveDispatch(r) ==
    /\ CanReceive(r)
    /\ \E q \in DispatchInputs(r) : Install(Begin(Cur, r, q))
    /\ served' = served + 1

\* The request runs from its position to its next await.
StepDispatch(r) ==
    /\ Running(r, "dispatch")
    /\ \E s \in {Cur} : Install(DispatchStep(s, r))
    /\ UNCHANGED served

ReceiveDecline(r) ==
    /\ CanReceive(r)
    /\ \E q \in DeclineInputs : Install(Begin(Cur, r, q))
    /\ served' = served + 1

\* The request runs from its position to its next await.
StepDecline(r) ==
    /\ Running(r, "decline")
    /\ \E s \in {Cur} : Install(DeclineStep(s, r))
    /\ UNCHANGED served

ReceiveRefer(r) ==
    /\ CanReceive(r)
    /\ \E q \in ReferInputs : Install(Begin(Cur, r, q))
    /\ served' = served + 1

\* The request runs from its position to its next await.
StepRefer(r) ==
    /\ Running(r, "refer")
    /\ \E s \in {Cur} : Install(ReferStep(s, r))
    /\ UNCHANGED served

ReceiveDelete(r) ==
    /\ CanReceive(r)
    /\ \E q \in DeleteInputs : Install(Begin(Cur, r, q))
    /\ served' = served + 1

\* The request runs from its position to its next await.
StepDelete(r) ==
    /\ Running(r, "delete")
    /\ \E s \in {Cur} : Install(DeleteStep(s, r))
    /\ UNCHANGED served

ReceiveCreateReferral(r) ==
    /\ CanReceive(r)
    /\ \E q \in CreateReferralInputs(r) : Install(Begin(Cur, r, q))
    /\ served' = served + 1

\* The request runs from its position to its next await.
StepCreateReferral(r) ==
    /\ Running(r, "createReferral")
    /\ \E s \in {Cur} : Install(CreateReferralStep(s, r))
    /\ UNCHANGED served

NextConc ==
    \E r \in Slots :
        \/ ReceiveUpdate(r) \/ StepUpdate(r)
        \/ ReceiveDispatch(r) \/ StepDispatch(r)
        \/ ReceiveDecline(r) \/ StepDecline(r)
        \/ ReceiveRefer(r) \/ StepRefer(r)
        \/ ReceiveDelete(r) \/ StepDelete(r)
        \/ ReceiveCreateReferral(r) \/ StepCreateReferral(r)

SpecConc == Init /\ [][NextConc]_vars

\* ------------------------------------------------------------------------
\* Admin accounts (departmentAdminController / unitAdminController; the two
\* controllers have the same text).  Account 1 is a department admin,
\* account 2 a unit admin; the username is the account's id.
\* ------------------------------------------------------------------------
\* Passwords are strings, written as sequences of characters.
Secret == <<"s", "e", "c", "r", "e", "t">>
Passwd == <<"p", "a", "s", "s", "w", "d">>
\* The passwords a request body can carry: none, one that is too short, two
\* of six characters, and one with a trailing blank.
BodyPasswords == {<<>>, <<"a", "b", "c">>, Secret, Passwd, Secret \o <<" ">>}

\* newPassword.length < 6
MinPasswordLength == 6

\* tempPasswordExpiry.setDate(tempPasswordExpiry.getDate() + 7): one unit of the clock
TempPasswordTTL == 1

\* String.prototype.trim
RECURSIVE TrimStart(_)
TrimStart(p) == IF p # <<>> /\ Head(p) = " " THEN TrimStart(Tail(p)) ELSE p
RECURSIVE TrimEnd(_)
TrimEnd(p) ==
    IF p # <<>> /\ p[Len(p)] = " " THEN TrimEnd(SubSeq(p, 1, Len(p) - 1)) ELSE p
Trim(p) == TrimEnd(TrimStart(p))

\* bcrypt.hash(p, 10) and bcrypt.compare(p, hash): the hash of a password
\* matches that password and no other.
Hash(p) == <<"$2a$10$">> \o p
BcryptCompare(p, hash) == hash = Hash(p)

\* admin.password && typeof admin.password === 'string'
IsSet(hash) == hash # <<>>

\* new DepartmentAdmin({tempPassword, tempPasswordExpiry, passwordResetRequired: true});
\* password is not set, isActive defaults to true.
NewAdmin(hashedTempPassword, tempPasswordExpiry) ==
    [password |-> <<>>, tempPassword |-> hashedTempPassword,
     tempPasswordExpiry |-> tempPasswordExpiry,
     passwordResetRequired |-> TRUE, isActive |-> TRUE]

\* The department (account 1) or unit (account 2) an admin is created for exists.
OwnerExists(id, owner) == IF id = 1 THEN owner \in Departments ELSE owner \in Units

\* (variant: the expiry of the temporary password not checked)
TempPasswordExpired_Never(admin, now) == FALSE

\* admin.tempPasswordExpiry && new Date(admin.tempPasswordExpiry) < new Date()
TempPasswordExpired(admin, now) ==
    admin.tempPasswordExpiry # NULL /\ admin.tempPasswordExpiry < now

\* (variant: the account's passwordResetRequired flag not consulted)
RequiresPasswordReset_TempOnly(admin, isUsingTempPassword) == isUsingTempPassword

\* requiresPasswordReset of the login response
RequiresPasswordReset(admin, isUsingTempPassword) ==
    IF isUsingTempPassword THEN TRUE ELSE admin.passwordResetRequired

AuthResponse(op, id, code, message) ==
    [NoAuth EXCEPT !.op = op, !.id = id, !.code = code, !.message = message]

\* createDepartmentAdmin / createUnitAdmin
CreateAdminResult(db, now, id, tempPassword, owner) ==
    IF tempPassword = <<>>
    THEN [admins |-> db, auth |-> AuthResponse("create", id, 400, "required")]
    ELSE IF ~OwnerExists(id, owner)
    THEN [admins |-> db, auth |-> AuthResponse("create", id, 404, "not found")]
    \* the unique index on username: error.code === 11000
    ELSE IF id \in DOMAIN db
    THEN [admins |-> db, auth |-> AuthResponse("create", id, 400, "already exists")]
    ELSE [admins |-> [a \in (DOMAIN db) \cup {id} |->
                        IF a = id THEN NewAdmin(Hash(tempPassword), now + TempPasswordTTL)
                        ELSE db[a]],
          auth |-> AuthResponse("create", id, 201, "created")]

\* loginDepartmentAdmin / loginUnitAdmin
LoginResult(db, now, id, password) ==
    LET resp(code, message) ==
            [AuthResponse("login", id, code, message) EXCEPT !.password = password]
    IN  IF password = <<>> THEN resp(400, "required")
        ELSE IF id \notin DOMAIN db THEN resp(401, "Invalid credentials")
        ELSE IF ~db[id].isActive THEN resp(403, "Account is deactivated")
        ELSE
        LET admin == db[id]
            passwordToCompare == Trim(password)
            isRegularPasswordValid ==
                IsSet(admin.password) /\ BcryptCompare(passwordToCompare, admin.password)
            tempPasswordExpired ==
                IsSet(admin.tempPassword) /\ TempPasswordExpired(admin, now)
            isTempPasswordValid ==
                /\ IsSet(admin.tempPassword) /\ ~TempPasswordExpired(admin, now)
                /\ BcryptCompare(passwordToCompare, admin.tempPassword)
            isValidPassword == isRegularPasswordValid \/ isTempPasswordValid
        IN  IF ~isValidPassword
            THEN IF tempPasswordExpired /\ ~isRegularPasswordValid
                 THEN resp(403, "Temporary password has expired")
                 ELSE resp(401, "Invalid credentials")
            ELSE [resp(200, "Login successful") EXCEPT
                    !.requiresPasswordReset =
                        RequiresPasswordReset(admin, isTempPasswordValid)]

\* updateDepartmentAdmin / updateUnitAdmin with isActive and password in the
\* body; isActive is "unset", TRUE or FALSE, password <<>> when not given.
UpdateAdminResult(db, id, isActive, password) ==
    IF password # <<>> /\ Len(password) < MinPasswordLength
    THEN [admins |-> db, auth |-> AuthResponse("updateAdmin", id, 400, "too short")]
    ELSE IF id \notin DOMAIN db
    THEN [admins |-> db, auth |-> AuthResponse("updateAdmin", id, 404, "not found")]
    ELSE [admins |-> [db EXCEPT
                        ![id].isActive = IF isActive = "unset" THEN @ ELSE isActive = "true",
                        ![id].password = IF password = <<>> THEN @ ELSE Hash(password)],
          auth |-> AuthResponse("updateAdmin", id, 200, "updated")]

\* deleteDepartmentAdmin / deleteUnitAdmin
DeleteAdminResult(db, id) ==
    IF id \notin DOMAIN db
    THEN [admins |-> db, auth |-> AuthResponse("deleteAdmin", id, 404, "not found")]
    ELSE [admins |-> [a \in (DOMAIN db) \ {id} |-> db[a]],
          auth |-> AuthResponse("deleteAdmin", id, 200, "deleted")]

\* resetTempPassword
ResetTempPasswordResult(db, now, id, newTempPassword) ==
    IF newTempPassword = <<>>
    THEN [admins |-> db, auth |-> AuthResponse("resetTempPassword", id, 400, "required")]
    ELSE IF id \notin DOMAIN db
    THEN [admins |-> db, auth |-> AuthResponse("resetTempPassword", id, 404, "not found")]
    ELSE [admins |-> [db EXCEPT
                        ![id].tempPassword = Hash(newTempPassword),
                        ![id].tempPasswordExpiry = now + TempPasswordTTL,
                        ![id].passwordResetRequired = TRUE],
          auth |-> AuthResponse("resetTempPassword", id, 200, "reset")]

\* changePassword
ChangePasswordResult(db, now, id, oldPassword, newPassword) ==
    LET resp(code, message) ==
            [AuthResponse("changePassword", id, code, message) EXCEPT
                !.password = oldPassword, !.newPassword = newPassword]
    IN  IF newPassword = <<>> THEN [admins |-> db, auth |-> resp(400, "required")]
        ELSE IF Len(newPassword) < MinPasswordLength
        THEN [admins |-> db, auth |-> resp(400, "too short")]
        ELSE IF id \notin DOMAIN db THEN [admins |-> db, auth |-> resp(404, "not found")]
        ELSE IF oldPassword = <<>> THEN [admins |-> db, auth |-> resp(400, "required")]
        ELSE
        LET admin == db[id]
            passwordToCompare == Trim(oldPassword)
            isRegularPasswordValid ==
                IsSet(admin.password) /\ BcryptCompare(passwordToCompare, admin.password)
        IN  IF /\ ~isRegularPasswordValid /\ IsSet(admin.tempPassword)
               /\ TempPasswordExpired(admin, now)
            THEN [admins |-> db, auth |-> resp(403, "Temporary password has expired")]
            ELSE IF ~(\/ isRegularPasswordValid
                      \/ /\ IsSet(admin.tempPassword)
                         /\ BcryptCompare(passwordToCompare, admin.tempPassword))
            THEN [admins |-> db, auth |-> resp(401, "Old password is incorrect")]
            ELSE [admins |-> [db EXCEPT
                                ![id].password = Hash(newPassword),
                                ![id].tempPassword = <<>>,
                                ![id].tempPasswordExpiry = NULL,
                                ![id].passwordResetRequired = FALSE],
                  auth |-> resp(200, "Password changed")]

\* ------------------------------------------------------------------------
\* SpecAuth: admin-account requests served one after the other, and the clock.
\* ------------------------------------------------------------------------
CreateAdmin ==
    /\ served < MaxAuthRequests
    /\ \E id \in AdminIds, tempPassword \in BodyPasswords, owner \in {1, 5} :
          \E res \in {CreateAdminResult(admins, clock, id, tempPassword, owner)} :
              admins' = res.admins /\ auth' = res.auth
    /\ served' = served + 1
    /\ UNCHANGED <<alerts, incidents, referrals, stations, req, clock>>

LoginAdmin ==
    /\ served < MaxAuthRequests
    /\ \E id \in AdminIds, password \in BodyPasswords :
          auth' = LoginResult(admins, clock, id, password)
    /\ served' = served + 1
    /\ UNCHANGED <<alerts, incidents, referrals, stations, req, clock, admins>>

UpdateAdmin ==
    /\ served < MaxAuthRequests
    /\ \E id \in AdminIds, isActive \in {"unset", "true", "false"},
          password \in {<<>>, <<"a", "b", "c">>, Passwd} :
          \E res \in {UpdateAdminResult(admins, id, isActive, password)} :
              admins' = res.admins /\ auth' = res.auth
    /\ served' = served + 1
    /\ UNCHANGED <<alerts, incidents, referrals, stations, req, clock>>

DeleteAdmin ==
    /\ served < MaxAuthRequests
    /\ \E id \in AdminIds :
          \E res \in {DeleteAdminResult(admins, id)} :
              admins' = res.admins /\ auth' = res.auth
    /\ served' = served + 1
    /\ UNCHANGED <<alerts, incidents, referrals, stations, req, clock>>

ResetTempPassword ==
    /\ served < MaxAuthRequests
    /\ \E id \in AdminIds, newTempPassword \in {<<>>, Secret, Passwd} :
          \E res \in {ResetTempPasswordResult(admins, clock, id, newTempPassword)} :
              admins' = res.admins /\ auth' = res.auth
    /\ served' = served + 1
    /\ UNCHANGED <<alerts, incidents, referrals, stations, req, clock>>

ChangePassword ==
    /\ served < MaxAuthRequests
    /\ \E id \in AdminIds, oldPassword \in BodyPasswords, newPassword \in BodyPasswords :
          \E res \in {ChangePasswordResult(admins, clock, id, oldPassword, newPassword)} :
              admins' = res.admins /\ auth' = res.auth
    /\ served' = served + 1
    /\ UNCHANGED <<alerts, incidents, referrals, stations, req, clock>>

\* Seven days pass.
Tick ==
    /\ clock < MaxClock
    /\ clock' = clock + 1
    /\ UNCHANGED <<alerts, incidents, referrals, stations, req, served, admins, auth>>

NextAuth ==
    \/ CreateAdmin
    \/ LoginAdmin
    \/ UpdateAdmin
    \/ DeleteAdmin
    \/ ResetTempPassword
    \/ ChangePassword
    \/ Tick

\* The alerts play no part in the admin-account requests: one of the initial
\* states, with both alerts at station 1.
InitAuth == Init /\ \A a \in AlertIds : alerts[a].station = 1

SpecAuth == InitAuth /\ [][NextAuth]_vars

\* ========================================================================
\* Properties
\* ========================================================================
\* The request served last under Spec (slot 1).
Last == req[1]
Served(op) == Last.op = op /\ Last.pc = "done"
NoRequestInProgress == \A r \in Slots : ~InFlight(r)

IncidentsOfAlert(a) == {i \in DOMAIN incidents : incidents[i].alertId = a}
Finalized(doc) == doc.status \in {"accepted", "rejected", "referred"}

\* C1: once an alert's status is accepted, rejected or referred, no later
\* operation changes its status or sets another of its dispatched / declined /
\* referred flags.
C1_NoRetriage ==
    [][\A a \in (DOMAIN alerts) \cap (DOMAIN alerts') :
          Finalized(alerts[a]) =>
              /\ alerts'[a].status = alerts[a].status
              /\ alerts'[a].dispatched = alerts[a].dispatched
              /\ alerts'[a].declined = alerts[a].declined
              /\ alerts'[a].referred = alerts[a].referred]_vars

\* C2: after a successful dispatchEmergencyAlert the alert's status is
\* 'accepted', after a successful declineEmergencyAlert it is 'rejected', after
\* a successful referEmergencyAlert it is 'referred'.
C2_TriageSetsStatus ==
    /\ (Served("dispatch") /\ Last.code = 200) => alerts[Last.id].status = "accepted"
    /\ (Served("decline") /\ Last.code = 200) => alerts[Last.id].status = "rejected"
    /\ (Served("refer") /\ Last.code = 200) => alerts[Last.id].status = "referred"

\* The station has an Operations department with an active unit.
CanBeProvisioned(st) ==
    \E d \in Departments, u \in Units :
        /\ DeptStation(d) = st /\ DeptIsOperations(d)
        /\ UnitDept(u) = d /\ UnitIsActive(u)

\* C3: when an alert's status changes from a non-accepted value to accepted and
\* its station has an Operations department with an active unit, the request
\* creates exactly one Incident, with alertId the alert, station the alert's
\* station, departmentOnDuty an Operations department of that station,
\* unitOnDuty an active unit of that department, and status 'active'.
C3_AcceptanceProvisions ==
    [][\A a \in (DOMAIN alerts) \cap (DOMAIN alerts') :
          (/\ alerts[a].status # "accepted"
           /\ alerts'[a].status = "accepted"
           /\ CanBeProvisioned(alerts[a].station))
          => /\ Len(incidents') = Len(incidents) + 1
             /\ LET inc == incidents'[Len(incidents')]
                IN  /\ inc.alertId = a
                    /\ inc.station = alerts[a].station
                    /\ inc.station = alerts'[a].station
                    /\ inc.departmentOnDuty \in Departments
                    /\ DeptIsOperations(inc.departmentOnDuty)
                    /\ DeptStation(inc.departmentOnDuty) = inc.station
                    /\ inc.unitOnDuty \in Units
                    /\ UnitDept(inc.unitOnDuty) = inc.departmentOnDuty
                    /\ UnitIsActive(inc.unitOnDuty)
                    /\ inc.status = "active"]_vars

C3_Witness ==
    /\ Served("dispatch") /\ Last.code = 200 /\ Last.currentStatus = "active"
    /\ \E i \in DOMAIN incidents :
          incidents[i].alertId = Last.id /\ incidents[i].unitOnDuty = 2

\* C4 (as claimed): every alert has at most one Incident whose alertId refers
\* to it.
C4_OneIncidentPerAlert == \A a \in AlertIds : Cardinality(IncidentsOfAlert(a)) <= 1

\* C4 (amended): a step stores at most one Incident, and only the step of an
\* updateEmergencyAlert that asked for 'accepted' or of a dispatchEmergencyAlert,
\* each having read the alert's status as not accepted; nothing else bounds the
\* number of incidents of an alert.
C4_OneIncidentPerAcceptingRequest ==
    [][/\ Len(incidents') <= Len(incidents) + 1
       /\ Len(incidents') = Len(incidents) + 1 =>
            \E r \in Slots :
                /\ req[r].pc = "provision" /\ req'[r].pc = "countIncidents"
                /\ req[r].op \in {"update", "dispatch"}
                /\ req[r].op = "update" => req[r].status = "accepted"
                /\ req[r].currentStatus # "accepted"
                /\ incidents'[Len(incidents')].alertId = req[r].id
                /\ \A o \in Slots \ {r} : req'[o] = req[o]]_vars

C4_Witness ==
    \E a \in AlertIds : Cardinality(IncidentsOfAlert(a)) = 2

\* C5: whenever no request is in progress, a station's hasActiveAlert is true
\* if and only if some alert of that station has status 'active'.
C5_HasActiveAlertConsistent ==
    NoRequestInProgress =>
        \A st \in Stations :
            stations[st].hasActiveAlert
                <=> (\E a \in DOMAIN alerts :
                        alerts[a].station = st /\ alerts[a].status = "active")

\* C6: whenever no request is in progress, a station's hasActiveIncident is
\* true if and only if some Incident of that station has status active,
\* dispatched or on_scene.
C6_HasActiveIncidentConsistent ==
    NoRequestInProgress =>
        \A st \in Stations :
            stations[st].hasActiveIncident
                <=> (\E i \in DOMAIN incidents :
                        /\ incidents[i].station = st
                        /\ incidents[i].status \in {"active", "dispatched", "on_scene"})

\* C7: createReferral succeeds only if, when it is served, the target station
\* is not out of commission, no alert of the target has status 'active' and no
\* incident of the target has status active, dispatched or on_scene.
C7_TargetAvailable ==
    [][(served' = served + 1 /\ req'[1].op = "createReferral" /\ req'[1].code = 201)
          => LET to == req'[1].to
             IN  /\ StationStatus(to) # "out of commission"
                 /\ ~\E a \in DOMAIN alerts :
                        alerts[a].station = to /\ alerts[a].status = "active"
                 /\ ~\E i \in DOMAIN incidents :
                        /\ incidents[i].station = to
                        /\ incidents[i].status \in {"active", "dispatched", "on_scene"}]_vars

C9_ReferReassigns ==
    (Served("refer") /\ Last.code = 200)
        => /\ Last.id \in DOMAIN alerts
           /\ alerts[Last.id].station = Last.to
           /\ alerts[Last.id].referredToStation = Last.to
           /\ alerts[Last.id].referred
           /\ alerts[Last.id].unit = NULL
           /\ alerts[Last.id].department = NULL

C9_Witness ==
    /\ Served("refer") /\ Last.code = 200 /\ Last.to = 2
    /\ alerts[Last.id].station = 2

\* C10: a successful createReferral for an EmergencyAlert emits alert-updated,
\* referred-alert-received and referral-created, in that order, with the
\* Referral and the alert update stored; a rejected createReferral emits none.
C10_ReferralEvents ==
    Served("createReferral") =>
        /\ (Last.code = 201 /\ Last.dtype = "EmergencyAlert")
              => /\ Last.events = <<"alertUpdated", "referredAlertReceived", "referralCreated">>
                 /\ Last.rid \in DOMAIN referrals
                 /\ referrals[Last.rid].data_id = Last.id
                 /\ alerts[Last.id].referred
        /\ Last.code # 201 => (Last.events = <<>> /\ Last.rid = NULL)

C10_Witness ==
    /\ Served("createReferral") /\ Last.code = 201 /\ Last.dtype = "EmergencyAlert"
    /\ Len(Last.events) = 3

C10_WitnessRejected ==
    Served("createReferral") /\ Last.code = 400 /\ Last.from # Last.to

\* C11: in every reachable state every Incident's status is one of the
\* documented lifecycle values active, dispatched, on_scene, resolved, closed.
C11_IncidentStatusDocumented ==
    \A i \in DOMAIN incidents : incidents[i].status \in IncidentStatuses

\* The step that serves a login request, and the account it names.
LoginServed == served' = served + 1 /\ auth'.op = "login"

\* The submitted password, trimmed as login and changePassword trim it, is the
\* password the stored hash was made from.
Matches(password, hash) == hash # <<>> /\ hash = Hash(Trim(password))

\* The account has a temporary password whose expiry lies before now.
HasExpiredTemp(admin, now) ==
    admin.tempPassword # <<>> /\ admin.tempPasswordExpiry # NULL
    /\ admin.tempPasswordExpiry < now

\* C12: a login succeeds only for an active account and a password that
\* matches the regular password or the unexpired temporary password; a login
\* with a username and a password gets 403 'Account is deactivated' for a
\* deactivated account whatever the password, 403 'Temporary password has
\* expired' when the password does not match the regular password and the
\* temporary password is expired, and 401 for any other non-matching password.
C12_LoginRefusals ==
    [][LoginServed =>
        LET id == auth'.id
            pw == auth'.password
        IN  /\ auth'.code = 200 =>
                /\ id \in DOMAIN admins
                /\ admins[id].isActive
                /\ \/ Matches(pw, admins[id].password)
                   \/ /\ Matches(pw, admins[id].tempPassword)
                      /\ ~HasExpiredTemp(admins[id], clock)
            /\ (pw # <<>> /\ id \notin DOMAIN admins) => auth'.code = 401
            /\ (pw # <<>> /\ id \in DOMAIN admins) =>
                LET a == admins[id]
                    regular == Matches(pw, a.password)
                    temp == Matches(pw, a.tempPassword)
                    expired == HasExpiredTemp(a, clock)
                IN  /\ ~a.isActive =>
                        auth'.code = 403 /\ auth'.message = "Account is deactivated"
                    /\ (a.isActive /\ ~regular /\ expired) =>
                        /\ auth'.code = 403
                        /\ auth'.message = "Temporary password has expired"
                    /\ (a.isActive /\ ~regular /\ ~expired /\ ~temp) =>
                        auth'.code = 401]_vars

\* A login with the right temporary password, after it expired.
C12_Witness ==
    /\ auth.op = "login" /\ auth.code = 403
    /\ auth.message = "Temporary password has expired"
    /\ auth.id \in DOMAIN admins
    /\ Matches(auth.password, admins[auth.id].tempPassword)

\* A login with the right password to a deactivated account.
C12_WitnessDeactivated ==
    /\ auth.op = "login" /\ auth.code = 403
    /\ auth.message = "Account is deactivated"
    /\ auth.id \in DOMAIN admins
    /\ Matches(auth.password, admins[auth.id].tempPassword)

\* The step that serves a changePassword request.
ChangePasswordServed == served' = served + 1 /\ auth'.op = "changePassword"

\* C13: changePassword changes the account only if oldPassword matches the
\* regular password or the unexpired temporary password; on an error response
\* (400, 401, 403, 404) the accounts are unchanged; on success the temporary
\* password is removed and passwordResetRequired is false, and then, for an
\* active account, a login with the new password succeeds with
\* requiresPasswordReset = false while a login with the former temporary
\* password (if it is not also the new password) fails.
C13_ChangePassword ==
    [][ChangePasswordServed =>
        LET id == auth'.id
            old == auth'.password
            new == auth'.newPassword
        IN  /\ auth'.code \in {400, 401, 403, 404} => admins' = admins
            /\ admins' # admins => auth'.code = 200
            /\ auth'.code = 200 =>
                /\ id \in DOMAIN admins
                /\ \/ Matches(old, admins[id].password)
                   \/ /\ Matches(old, admins[id].tempPassword)
                      /\ ~HasExpiredTemp(admins[id], clock)
                /\ admins'[id].tempPassword = <<>>
                /\ admins'[id].tempPasswordExpiry = NULL
                /\ ~admins'[id].passwordResetRequired
                /\ admins[id].isActive =>
                    /\ LoginResult(admins', clock', id, new).code = 200
                    /\ ~LoginResult(admins', clock', id, new).requiresPasswordReset
                    /\ \A p \in BodyPasswords :
                          (Matches(p, admins[id].tempPassword) /\ Trim(p) # Trim(new))
                              => LoginResult(admins', clock', id, p).code # 200]_vars

\* C14: a successful login reports requiresPasswordReset = true exactly when
\* the password matched the unexpired temporary password or the account's
\* passwordResetRequired flag is set; a successful login to an account that has
\* only the temporary password it was created with reports true.
C14_RequiresPasswordReset ==
    [][(LoginServed /\ auth'.code = 200) =>
        LET a == admins[auth'.id]
            byTemp == Matches(auth'.password, a.tempPassword)
                      /\ ~HasExpiredTemp(a, clock)
        IN  /\ auth'.requiresPasswordReset <=> (byTemp \/ a.passwordResetRequired)
            /\ a.password = <<>> => auth'.requiresPasswordReset]_vars

\* A login by the regular password to an account whose passwordResetRequired
\* flag is still set.
C14_Witness ==
    /\ auth.op = "login" /\ auth.code = 200 /\ auth.requiresPasswordReset
    /\ auth.id \in DOMAIN admins
    /\ admins[auth.id].passwordResetRequired
    /\ Matches(auth.password, admins[auth.id].password)
    /\ ~Matches(auth.password, admins[auth.id].tempPassword)

\* The first login to a new account, and a login after changePassword.
C14_WitnessFirstLogin ==
    /\ auth.op = "login" /\ auth.code = 200 /\ auth.requiresPasswordReset
    /\ auth.id \in DOMAIN admins /\ admins[auth.id].password = <<>>

C14_WitnessNoReset ==
    /\ auth.op = "login" /\ auth.code = 200 /\ ~auth.requiresPasswordReset

\* The database after the step, and the answer a getTurnoutSlipByIncident
\* served right after the step would get.
CurAfter == [alerts |-> alerts', incidents |-> incidents', referrals |-> referrals',
             stations |-> stations', req |-> req', now |-> served' + 1]
FollowingGet(incidentId) == Run(Begin(CurAfter, 1, GetTurnoutSlipRequest(incidentId)), 1).req[1]

\* C15: getTurnoutSlipByIncident answers 404 when the incident does not exist
\* or has no turnoutSlip, and otherwise returns the stored slip;
\* regenerateTurnoutSlip answers 404 and changes no incident when the incident
\* or the alert it refers to does not exist, and otherwise stores a slip whose
\* alertId is the incident's alertId, which a following
\* getTurnoutSlipByIncident returns.
C15_TurnoutSlip ==
    [][(served' = served + 1) =>
        LET q == req'[1]
            i == q.id
        IN  /\ q.op = "getTurnoutSlip" =>
                /\ incidents' = incidents
                /\ IF i \notin DOMAIN incidents \/ incidents[i].turnoutSlip = NoSlip
                   THEN q.code = 404
                   ELSE q.code = 200 /\ q.slip = incidents[i].turnoutSlip
            /\ q.op = "regenerateTurnoutSlip" =>
                IF i \notin DOMAIN incidents \/ incidents[i].alertId \notin DOMAIN alerts
                THEN q.code = 404 /\ incidents' = incidents
                ELSE /\ q.code = 200
                     /\ incidents'[i].turnoutSlip.alertId = incidents[i].alertId
                     /\ incidents'[i].alertId = incidents[i].alertId
                     /\ \A j \in DOMAIN incidents : j # i => incidents'[j] = incidents[j]
                     /\ FollowingGet(i).code = 200
                     /\ FollowingGet(i).slip = incidents'[i].turnoutSlip]_vars

\* A regeneration refused because the incident's alert was deleted.
C15_Witness ==
    /\ Served("regenerateTurnoutSlip") /\ Last.code = 404
    /\ Last.id \in DOMAIN incidents
    /\ incidents[Last.id].alertId \notin DOMAIN alerts

\* A slip returned after a regeneration.
C15_WitnessReturned ==
    /\ Served("getTurnoutSlip") /\ Last.code = 200
    /\ Last.slip.alertId = incidents[Last.id].alertId

\* The step that serves a dispatch / decline / referEmergencyAlert request.
TriageServed ==
    served' = served + 1 /\ req'[1].op \in {"dispatch", "decline", "refer"}

\* The alert has no assigned active unit, or one of its dispatched, declined,
\* referred flags is true.
Blocked(doc) ==
    \/ doc.unit = NULL \/ ~UnitIsActive(doc.unit)
    \/ doc.dispatched \/ doc.declined \/ doc.referred

\* A call succeeds only on an alert that is not blocked and leaves it blocked,
\* and no request unblocks an alert: of any series of calls on one alert at
\* most one succeeds.
AtMostOneTriageSucceeds ==
    /\ (TriageServed /\ req'[1].code = 200) =>
            /\ req'[1].id \in DOMAIN alerts
            /\ ~Blocked(alerts[req'[1].id])
            /\ Blocked(alerts'[req'[1].id])
    /\ \A a \in (DOMAIN alerts) \cap (DOMAIN alerts') :
            Blocked(alerts[a]) => Blocked(alerts'[a])

\* C16 (as claimed): dispatch / decline / referEmergencyAlert each answer 400
\* and leave the alerts, the incidents and the station flags unchanged when the
\* alert has no assigned active unit or is already dispatched, declined or
\* referred; at most one call on an alert succeeds.
C16_GuardsReturn400 ==
    [][/\ (TriageServed /\ req'[1].id \in DOMAIN alerts
                        /\ Blocked(alerts[req'[1].id])) =>
            /\ req'[1].code = 400
            /\ alerts' = alerts /\ incidents' = incidents /\ stations' = stations
       /\ AtMostOneTriageSucceeds]_vars

\* C16 (amended): as claimed, except that referEmergencyAlert answers 404 when
\* the station it is asked to refer to does not exist, whatever the alert's
\* state: that station is looked up before the alert is read.
C16_GuardsRefuse ==
    [][/\ (TriageServed /\ req'[1].id \in DOMAIN alerts
                        /\ Blocked(alerts[req'[1].id])) =>
            /\ req'[1].code =
                  IF req'[1].op = "refer" /\ req'[1].reasonOk /\ req'[1].to \notin Stations
                  THEN 404 ELSE 400
            /\ alerts' = alerts /\ incidents' = incidents /\ stations' = stations
       /\ AtMostOneTriageSucceeds]_vars

\* A decline refused because the alert is already dispatched.
C16_Witness ==
    /\ Served("decline") /\ Last.code = 400 /\ Last.reasonOk
    /\ Last.id \in DOMAIN alerts
    /\ alerts[Last.id].dispatched /\ ~alerts[Last.id].declined

\* A refer of a triaged alert to a station that does not exist.
C16_WitnessNotFound ==
    /\ Served("refer") /\ Last.code = 404 /\ Last.to \notin Stations
    /\ Last.id \in DOMAIN alerts /\ Blocked(alerts[Last.id])

\* How many of the alert's dispatched, declined, referred flags are true.
TriageFlags(doc) ==
    (IF doc.dispatched THEN 1 ELSE 0) + (IF doc.declined THEN 1 ELSE 0)
        + (IF doc.referred THEN 1 ELSE 0)

\* C17: when a dispatchEmergencyAlert and a declineEmergencyAlert (or
\* referEmergencyAlert) request for the same untriaged alert are interleaved,
\* at most one of them succeeds and the alert never has more than one of
\* dispatched, declined, referred true.
C17_InterleavedTriageExclusive ==
    \A r \in Slots, o \in Slots :
        (/\ r # o
         /\ req[r].op = "dispatch" /\ req[o].op \in {"decline", "refer"}
         /\ req[r].id = req[o].id)
        => /\ ~(req[r].code = 200 /\ req[o].code = 200)
           /\ req[r].id \in DOMAIN alerts => TriageFlags(alerts[req[r].id]) <= 1

\* The request served by the step accepts the alert: an updateEmergencyAlert
\* with status 'accepted', or a dispatchEmergencyAlert that passes its guards,
\* of an alert that is not yet accepted.
AcceptServed ==
    /\ served' = served + 1
    /\ req'[1].id \in DOMAIN alerts
    /\ alerts[req'[1].id].status # "accepted"
    /\ \/ req'[1].op = "update" /\ req'[1].status = "accepted"
       \/ req'[1].op = "dispatch" /\ ~Blocked(alerts[req'[1].id])

\* C18: when updateEmergencyAlert or dispatchEmergencyAlert accepts an alert
\* whose station has no Operations department with an active unit, or when
\* saving the incident fails, the alert is stored as accepted, no Incident is
\* created, no hasActiveIncident flag changes, no new-incident event is emitted
\* and the request answers with success.
C18_AcceptanceWithoutProvisioning ==
    [][(AcceptServed
        /\ (~CanBeProvisioned(alerts[req'[1].id].station) \/ req'[1].saveFails))
        => /\ req'[1].code = 200
           /\ alerts'[req'[1].id].status = "accepted"
           /\ incidents' = incidents
           /\ \A st \in Stations :
                 stations'[st].hasActiveIncident = stations[st].hasActiveIncident
           /\ \A k \in DOMAIN req'[1].events : req'[1].events[k] # "newIncident"]_vars

\* A dispatch accepted while the incident could not be saved.
C18_Witness ==
    /\ Served("dispatch") /\ Last.code = 200 /\ Last.saveFails
    /\ Last.currentStatus = "active"
    /\ alerts[Last.id].status = "accepted"
    /\ IncidentsOfAlert(Last.id) = {}

\* An alert of station 2 (Operations department without active unit) accepted.
C18_WitnessNoUnit ==
    /\ Served("update") /\ Last.code = 200 /\ Last.status = "accepted"
    /\ Last.currentStatus = "active" /\ Last.station = 2 /\ ~Last.saveFails
    /\ alerts[Last.id].status = "accepted"
    /\ IncidentsOfAlert(Last.id) = {}

\* The step that serves an updateEmergencyAlert with status 'accepted' of an
\* alert whose status is already 'accepted'.
RepeatedAcceptServed ==
    /\ served' = served + 1
    /\ req'[1].op = "update" /\ req'[1].status = "accepted"
    /\ req'[1].id \in DOMAIN alerts
    /\ alerts[req'[1].id].status = "accepted"

\* C19: updateEmergencyAlert with status accepted on an alert that is already
\* accepted creates no Incident, emits no new-incident event, and leaves the
\* alert's dispatchedAt, once set, as it is.
C19_RepeatedAccept ==
    [][RepeatedAcceptServed =>
        /\ incidents' = incidents
        /\ \A k \in DOMAIN req'[1].events : req'[1].events[k] # "newIncident"
        /\ alerts[req'[1].id].dispatchedAt # NULL =>
              alerts'[req'[1].id].dispatchedAt = alerts[req'[1].id].dispatchedAt]_vars

\* The positions of an event in the events a request emitted.
Positions(events, ev) == {k \in DOMAIN events : events[k] = ev}

\* C20: when a request provisions an Incident, the hasActiveIncident flag of
\* the incident's station is true when the request completes, and the request
\* emits new-incident only if it stored an Incident, and before its
\* alert-updated; a successful updateEmergencyAlert emits exactly one
\* alert-updated, an updateEmergencyAlert answered 400, 404 or 500 emits nothing.
C20_ProvisioningOrder ==
    [][(served' = served + 1 /\ req'[1].op \in {"update", "dispatch"}) =>
        LET q == req'[1]
        IN  /\ Len(incidents') > Len(incidents) =>
                stations'[incidents'[Len(incidents')].station].hasActiveIncident
            /\ Positions(q.events, "newIncident") # {} =>
                /\ Len(incidents') = Len(incidents) + 1
                /\ incidents'[Len(incidents')].alertId = q.id
                /\ \A k \in Positions(q.events, "newIncident"),
                      m \in Positions(q.events, "alertUpdated") : k < m
            /\ (q.op = "update" /\ q.code = 200) =>
                Cardinality(Positions(q.events, "alertUpdated")) = 1
            /\ (q.op = "update" /\ q.code \in {400, 404, 500}) => q.events = <<>>]_vars

\* An acceptance that provisioned an incident and emitted both events.
C20_Witness ==
    /\ Served("update") /\ Last.code = 200
    /\ Last.events = <<"newIncident", "alertUpdated">>
    /\ IncidentsOfAlert(Last.id) # {}
    /\ stations[Last.station].hasActiveIncident

\* An update refused by the schema's validators.
C20_WitnessError ==
    Served("update") /\ Last.code = 400 /\ Last.events = <<>>

\* While requests interleave: a request has emitted new-incident only after
\* an Incident of its alert was stored.
C20_EmittedAfterPersisted ==
    \A r \in Slots :
        Positions(req[r].events, "newIncident") # {} =>
            \E i \in DOMAIN incidents : incidents[i].alertId = req[r].id

\* C21: in every reachable state, each alert or incident (data_id, data_type)
\* has at most one Referral with status 'pending'.
C21_AtMostOnePendingReferral ==
    \A dtype \in {"EmergencyAlert", "Incident"} :
        \A id \in AlertIds \cup (1..MaxIncidents) :
            Cardinality(PendingReferrals(Cur, id, dtype)) <= 1

\* C22: a deleteEmergencyAlert that succeeds removes the alert and nothing
\* else, leaves hasActiveAlert of the alert's station equal to whether an
\* alert with status 'active' remains there, and emits alert-deleted; it
\* succeeds exactly for an alert that exists; for a malformed id it returns
\* 400, for an id without alert 404, and then changes nothing and emits nothing.
DeleteServed == served' = served + 1 /\ req'[1].op = "delete"

C22_DeleteEmergencyAlert ==
    [][DeleteServed =>
          LET q == req'[1]
          IN  /\ q.code = 200 <=> q.id \in DOMAIN alerts
              /\ q.code = 200 =>
                    LET st == alerts[q.id].station
                    IN  /\ DOMAIN alerts' = (DOMAIN alerts) \ {q.id}
                        /\ \A a \in DOMAIN alerts' : alerts'[a] = alerts[a]
                        /\ stations'[st].hasActiveAlert
                              <=> (\E a \in DOMAIN alerts' :
                                      alerts'[a].station = st /\ alerts'[a].status = "active")
                        /\ \A o \in Stations \ {st} : stations'[o] = stations[o]
                        /\ stations'[st].hasActiveIncident = stations[st].hasActiveIncident
                        /\ q.events = <<"alertDeleted">>
                        /\ UNCHANGED <<incidents, referrals>>
              /\ q.code # 200 =>
                    /\ q.code = (IF IsValidObjectId(q.id) THEN 404 ELSE 400)
                    /\ q.events = <<>>
                    /\ UNCHANGED <<alerts, incidents, referrals, stations>>]_vars

\* The last alert with status 'active' of a station deleted: the flag, set
\* before, is cleared.
C22_Witness ==
    /\ Served("delete") /\ Last.code = 200
    /\ Last.id \notin DOMAIN alerts
    /\ ~stations[Last.station].hasActiveAlert
    /\ \E a \in DOMAIN alerts : alerts[a].station # Last.station

\* One of two active alerts of a station deleted: the flag stays set.
C22_WitnessRemains ==
    /\ Served("delete") /\ Last.code = 200
    /\ stations[Last.station].hasActiveAlert
    /\ \E a \in DOMAIN alerts :
          alerts[a].station = Last.station /\ alerts[a].status = "active"

C22_WitnessNotFound == Served("delete") /\ Last.code = 404 /\ DOMAIN alerts # AlertIds

C22_WitnessMalformed == Served("delete") /\ Last.code = 400

\* C23: once two interleaved updateEmergencyAlert requests on two different
\* alerts of the same station have both completed, the station's
\* hasActiveAlert is true if and only if an alert with status 'active' exists
\* at that station.
InterleavedUpdatesCompleted ==
    /\ NoRequestInProgress
    /\ \A r \in Slots : req[r].op = "update" /\ req[r].code = 200
    /\ req[1].id # req[2].id
    /\ req[1].station = req[2].station

C23_InterleavedUpdatesRecompute ==
    InterleavedUpdatesCompleted =>
        LET st == req[1].station
        IN  stations[st].hasActiveAlert
                <=> (\E a \in DOMAIN alerts :
                        alerts[a].station = st /\ alerts[a].status = "active")

\* C24: whenever createReferral responds with an error (400, 404 or 500), no
\* Referral has been added and no alert or incident has been changed.
CreateReferralServed == served' = served + 1 /\ req'[1].op = "createReferral"

C24_CreateReferralAllOrNothing ==
    [][(CreateReferralServed /\ req'[1].code \in {400, 404, 500})
          => UNCHANGED <<referrals, alerts, incidents>>]_vars

\* C25: in every reachable state a Referral has responded_at set if and only
\* if its status is accepted or rejected (a pending referral has none).
C25_RespondedAtIffAnswered ==
    \A i \in DOMAIN referrals :
        ReferralExists(Cur, i) =>
            (referrals[i].responded_at <=> referrals[i].status \in {"accepted", "rejected"})

\* C26: updateReferral and deleteReferral change the one Referral and nothing
\* else: every alert, every incident, every station's flags and every other
\* Referral are as before.
ReferralAnswerServed ==
    served' = served + 1 /\ req'[1].op \in {"updateReferral", "deleteReferral"}

C26_ReferralAnswerFrame ==
    [][ReferralAnswerServed =>
          /\ UNCHANGED <<alerts, incidents, stations>>
          /\ DOMAIN referrals' = DOMAIN referrals
          /\ \A i \in DOMAIN referrals :
                i # req'[1].id => referrals'[i] = referrals[i]]_vars

\* The referral of an alert accepted: the alert is still at the referring
\* station, marked as referred.
C26_Witness ==
    /\ Served("updateReferral") /\ Last.code = 200 /\ Last.status = "accepted"
    /\ referrals[Last.id].status = "accepted"
    /\ referrals[Last.id].data_type = "EmergencyAlert"
    /\ LET doc == alerts[referrals[Last.id].data_id]
       IN  doc.referred /\ doc.station = referrals[Last.id].from_station_id

C26_WitnessDeleted ==
    /\ Served("deleteReferral") /\ Last.code = 200
    /\ referrals[Last.id] = DeletedReferral
    /\ \E a \in DOMAIN alerts : alerts[a].referred

\* C27: in every reachable state, every alert with referred = true or status
\* 'referred' has at least one Referral with data_type 'EmergencyAlert' and
\* data_id equal to the alert.
ReferralsOfAlert(a) ==
    {i \in DOMAIN referrals :
        referrals[i].data_type = "EmergencyAlert" /\ referrals[i].data_id = a}

C27_ReferredAlertHasReferral ==
    \A a \in DOMAIN alerts :
        (alerts[a].referred \/ alerts[a].status = "referred") => ReferralsOfAlert(a) # {}

\* C28: the Referral created by a successful createReferral has as
\* from_station_id the station that owns the referred alert or incident when
\* the request is served, and as to_station_id a station other than that owner.
OwnerStation(data_id, data_type) ==
    IF data_type = "EmergencyAlert" THEN alerts[data_id].station
    ELSE incidents[data_id].station

C28_ReferralFromOwner ==
    [][(CreateReferralServed /\ req'[1].code = 201)
          => LET q == req'[1]
                 ref == referrals'[q.rid]
                 owner == OwnerStation(q.id, q.dtype)
             IN  /\ ref.from_station_id = owner
                 /\ ref.to_station_id # owner]_vars

====
